---- MODULE Spec2Model ----
(***************************************************************************)
(* State-machine model of cpp_uartbridge/src/uart_bridge_node.cpp: the     *)
(* UartBridge node (constructor, timer_callback, service_callback,         *)
(* publishFromPort, cleanupMessage) run by rclcpp::spin in main, together  *)
(* with the serial device it talks to.                                     *)
(*                                                                         *)
(* Text is a sequence of one-character strings; "CR" and "LF" stand for    *)
(* '\r' and '\n'.  Time is a discrete clock counted from the `begin` taken *)
(* in service_callback.  The device hands over whole raw lines (readline   *)
(* frames on '\n'), so a raw line ends in LF and has no LF before its end. *)
(***************************************************************************)
EXTENDS Integers, Sequences, FiniteSets, TLC

\* ------------------------------------------------------------------ bounds
\* Lines the device delivers during one run.
MaxLines == 2
\* answerTimeout, in clock steps (the parameter of line 87/97, scaled).
AnswerTimeout == 2
\* Requests that may wait in the service queue.
MaxPending == 1
\* Largest pollRate a configuration is drawn from.
MaxPollRate == 1001
\* Longest text cleanupMessage is applied to on its own.
MaxTextLen == 4

\* ------------------------------------------------------ program constants
\* The 1000 of `1000 / pollRate` (line 110).
MillisPerSecond == 1000
\* The declared default of the pollRate parameter (line 88).
DefaultPollRate == 1000

\* ------------------------------------------------------------------- text
CR == "CR"
LF == "LF"

\* The raw lines the device may send: plain, empty after cleanup, and one
\* with carriage returns inside the text.
RawLines ==
    { <<"a", CR, LF>>, <<CR, LF>>, <<"b", CR, "a", LF>> }

\* The sentinel of line 224, and the value of a response not yet written.
OK == <<"O", "K">>
NoResponse == <<"NoResponse">>

\* The characters texts are built from.
Alphabet == {"a", "b", CR, LF}

\* Every text of at most n characters.
Texts(n) == UNION { [1..k -> Alphabet] : k \in 0..n }

RECURSIVE StripTrailing(_)
\* A text without the CR and LF characters at its end.
StripTrailing(s) ==
    IF s # <<>> /\ s[Len(s)] \in {CR, LF}
    THEN StripTrailing(SubSeq(s, 1, Len(s) - 1))
    ELSE s

RECURSIVE WithoutBreaks(_)
\* A text with each CR and LF dropped and the other characters kept in order.
WithoutBreaks(s) ==
    IF s = <<>> THEN <<>>
    ELSE IF Head(s) \in {CR, LF} THEN WithoutBreaks(Tail(s))
    ELSE <<Head(s)>> \o WithoutBreaks(Tail(s))

\* cleanupMessage without its second erase: '\r' is left in the text.
cleanupMessage_onlyLF(data) == SelectSeq(data, LAMBDA c : c # LF)

\* cleanupMessage as a strip of the line ending only.
cleanupMessage_trailingOnly(data) == StripTrailing(data)

\* string cleanupMessage(string data): erase-remove of '\n', then of '\r'.
cleanupMessage(data) ==
    LET noLF == SelectSeq(data, LAMBDA c : c # LF)
    IN  SelectSeq(noLF, LAMBDA c : c # CR)

RECURSIVE ByteCount(_)
\* Number of bytes waiting in a sequence of raw lines.
ByteCount(lines) ==
    IF lines = <<>> THEN 0 ELSE Len(Head(lines)) + ByteCount(Tail(lines))

\* ------------------------------------------------------------------ state
VARIABLES
    phase,          \* where main/the constructor stands
    timerCreated,   \* create_wall_timer has run (line 113)
    serviceCreated, \* create_service has run (line 115)
    devState,       \* "unopened", "ok", "closed" (isOpen false), "fault" (I/O throws)
    buffer,         \* raw lines waiting in the port's input buffer
    delivered,      \* history: every raw line the device has sent
    consumed,       \* history: every raw line readline has returned
    readers,        \* history: which callback read each consumed line
    published,      \* the messages published on the topic, in order
    timerDue,       \* the wall timer has expired and its callback is ready
    pendingReq,     \* requests waiting for the service callback
    nRunning,       \* callbacks the executor is executing right now
    pcT,            \* position inside timer_callback
    tickWarned,     \* this tick logged "Serial Port Closed"
    tickChecks,     \* available() calls made by this tick
    tickReads,      \* publishFromPort calls made by this tick
    pcS,            \* position inside service_callback
    answer,         \* local `answer`
    elapsed,        \* system_clock::now() - begin
    response,       \* response->response
    svcWrite,       \* outcome of the write of this invocation
    svcChecked,     \* this invocation has called available()
    svcSawBytes,    \* some available() call of this invocation returned > 0
    svcReads,       \* publishFromPort calls completed by this invocation
    svcRead,        \* the raw line this invocation read (<<>> when none)
    svcReadAt,      \* that line's position among the delivered lines (0 when none)
    svcMark,        \* lines the device had delivered when the request was written
    svcResponses,   \* assignments to response->response by this invocation
    svcOutcome,     \* "none", "running", "returned", "threw"
    ticked,         \* the clock has advanced since the last test of the while
    pollRate,       \* the pollRate parameter (line 98)
    pollTimeout,    \* int pollTimeout (line 110); 0 until it is computed
    probe           \* cleanupMessage applied on its own: input, results, stage

devVars == <<devState, buffer, delivered, consumed, readers, published>>
startVars == <<phase, timerCreated, serviceCreated>>
execVars == <<timerDue, pendingReq, nRunning>>
timerVars == <<pcT, tickWarned, tickChecks, tickReads>>
svcVars == <<pcS, answer, elapsed, response, svcWrite, svcChecked, svcSawBytes,
             svcReads, svcRead, svcReadAt, svcMark, svcResponses, svcOutcome,
             ticked>>
cfgVars == <<pollRate, pollTimeout>>
vars == <<startVars, devVars, execVars, timerVars, svcVars, cfgVars, probe>>

\* The probe of cleanupMessage on text t, before it is applied.
ProbeOf(t) == [in |-> t, once |-> <<>>, twice |-> <<>>, stage |-> 0]

\* The state before the constructor's body runs, whatever the configuration.
Start ==
    /\ phase = "ctor"
    /\ timerCreated = FALSE
    /\ serviceCreated = FALSE
    /\ devState = "unopened"
    /\ buffer = <<>>
    /\ delivered = <<>>
    /\ consumed = <<>>
    /\ readers = <<>>
    /\ published = <<>>
    /\ timerDue = FALSE
    /\ pendingReq = 0
    /\ nRunning = 0
    /\ pcT = "idle"
    /\ tickWarned = FALSE
    /\ tickChecks = 0
    /\ tickReads = 0
    /\ pcS = "idle"
    /\ answer = <<>>
    /\ elapsed = 0
    /\ response = NoResponse
    /\ svcWrite = "none"
    /\ svcChecked = FALSE
    /\ svcSawBytes = FALSE
    /\ svcReads = 0
    /\ svcRead = <<>>
    /\ svcReadAt = 0
    /\ svcMark = 0
    /\ svcResponses = 0
    /\ svcOutcome = "none"
    /\ ticked = FALSE
    /\ pollTimeout = 0

\* The node started with the default pollRate.
Init ==
    /\ Start
    /\ pollRate = DefaultPollRate
    /\ probe = ProbeOf(<<>>)

\* ------------------------------------------------- the serial driver's calls
\* serialPortObject->isOpen()
isOpen == devState # "closed"

\* serialPortObject->available(): a closed port reports 0 bytes.
available == IF devState = "closed" THEN 0 ELSE ByteCount(buffer)

\* serialPortObject->available() throws on a device in error.
availableThrows == devState = "fault"

\* serialPortObject->readline(data) throws on a closed port or a device in error.
readlineThrows == devState \in {"closed", "fault"}

\* serialPortObject->write(request->message) throws on a closed port or a
\* device in error.
writeThrows == devState \in {"closed", "fault"}

\* ---------------------------------------------------------------- startup
\* The configurations startup is explored over.
PollRates == 0..MaxPollRate

\* What an int division by zero, which is undefined, may leave in the
\* quotient when it does not trap.
UndefinedQuotients == {0, MillisPerSecond}

\* The int division a / b of line 110: a quotient, or for b = 0 (undefined
\* behaviour) either a trap or any quotient.
IntDivide(a, b) ==
    IF b # 0
    THEN { [trap |-> FALSE, q |-> a \div b] }
    ELSE { [trap |-> TRUE, q |-> 0] }
         \cup { [trap |-> FALSE, q |-> v] : v \in UndefinedQuotients }

\* Line 110: int pollTimeout = 1000 / pollRate, with no test of pollRate
\* before it.  A trap ends the process inside the constructor.
ComputePollTimeout ==
    /\ phase = "ctor"
    /\ \E d \in IntDivide(MillisPerSecond, pollRate) :
         /\ pollTimeout' = d.q
         /\ phase' = IF d.trap THEN "trapped" ELSE "period"
    /\ UNCHANGED <<timerCreated, serviceCreated, devVars, execVars, timerVars,
                   svcVars, pollRate, probe>>

\* Lines 112-113: the publisher and the wall timer are created, the timer
\* with period milliseconds(pollTimeout).
CreateTimer ==
    /\ phase = "period"
    /\ timerCreated' = TRUE
    /\ phase' = "timer"
    /\ UNCHANGED <<serviceCreated, devVars, execVars, timerVars, svcVars>>
    /\ UNCHANGED <<cfgVars, probe>>

\* Line 115: the service is created.
CreateService ==
    /\ phase = "timer"
    /\ serviceCreated' = TRUE
    /\ phase' = "service"
    /\ UNCHANGED <<timerCreated, devVars, execVars, timerVars, svcVars>>
    /\ UNCHANGED <<cfgVars, probe>>

\* The catch block without its rethrow: the constructor completes and main
\* goes on to spin.
AfterOpenFailure_swallowed == "constructed"

\* openSerialPort when new serial::Serial throws: the handler rethrows
\* (line 148), the constructor is left by the exception and main never
\* reaches rclcpp::spin.
AfterOpenFailure == "aborted"

\* Line 118 / openSerialPort: the port opens, or the constructor is aborted.
OpenSerialPort ==
    /\ phase = "service"
    /\ \E present \in BOOLEAN :
         IF present
         THEN /\ devState' = "ok"
              /\ phase' = "constructed"
         ELSE /\ devState' = "unopened"
              /\ phase' = AfterOpenFailure
    /\ UNCHANGED <<timerCreated, serviceCreated, buffer, delivered, consumed,
                   readers, published, execVars, timerVars, svcVars>>
    /\ UNCHANGED <<cfgVars, probe>>

\* main, line 237: rclcpp::spin starts serving the node's callbacks.
Spin ==
    /\ phase = "constructed"
    /\ phase' = "spin"
    /\ UNCHANGED <<timerCreated, serviceCreated, devVars, execVars, timerVars,
                   svcVars>>
    /\ UNCHANGED <<cfgVars, probe>>

\* ----------------------------------------------------------- environment
\* The device sends one more raw line.
DeviceDelivers ==
    /\ phase \in {"constructed", "spin"}
    /\ devState = "ok"
    /\ Len(delivered) < MaxLines
    /\ \E l \in RawLines :
         /\ buffer' = Append(buffer, l)
         /\ delivered' = Append(delivered, l)
    /\ UNCHANGED <<startVars, devState, consumed, readers, published,
                   execVars, timerVars, svcVars>>
    /\ UNCHANGED <<cfgVars, probe>>

\* The port becomes closed while the node runs.
PortCloses ==
    /\ phase = "spin"
    /\ devState = "ok"
    /\ devState' = "closed"
    /\ UNCHANGED <<startVars, buffer, delivered, consumed, readers, published,
                   execVars, timerVars, svcVars>>
    /\ UNCHANGED <<cfgVars, probe>>

\* The device goes into error (unplugged): I/O calls on it throw.
DeviceFaults ==
    /\ phase = "spin"
    /\ devState = "ok"
    /\ devState' = "fault"
    /\ UNCHANGED <<startVars, buffer, delivered, consumed, readers, published,
                   execVars, timerVars, svcVars>>
    /\ UNCHANGED <<cfgVars, probe>>

\* The wall timer's period has passed: timer_callback is ready to run.
TimerExpires ==
    /\ phase = "spin"
    /\ ~timerDue
    /\ timerDue' = TRUE
    /\ UNCHANGED <<startVars, devVars, pendingReq, nRunning, timerVars, svcVars>>
    /\ UNCHANGED <<cfgVars, probe>>

\* A client calls the service: the request waits for service_callback.
RequestArrives ==
    /\ phase = "spin"
    /\ pendingReq < MaxPending
    /\ pendingReq' = pendingReq + 1
    /\ UNCHANGED <<startVars, devVars, timerDue, nRunning, timerVars, svcVars>>
    /\ UNCHANGED <<cfgVars, probe>>

\* system_clock advances by one step while service_callback waits.  The step
\* is the time one turn of the while loop takes at most: the clock advances
\* at most once between two tests of the loop condition.
ClockTick ==
    /\ phase = "spin"
    /\ pcS \in {"loop", "avail", "read"}
    /\ ~ticked
    /\ elapsed' = elapsed + 1
    /\ ticked' = TRUE
    /\ UNCHANGED <<startVars, devVars, execVars, timerVars, pcS, answer,
                   response, svcWrite, svcChecked, svcSawBytes, svcReads,
                   svcRead, svcReadAt, svcMark, svcResponses, svcOutcome>>
    /\ UNCHANGED <<cfgVars, probe>>

\* ------------------------------------------------------------ the executor
\* A multi-threaded executor with a reentrant callback group: a ready callback
\* is started whether or not another one is still running.
ExecutorReady_reentrant == TRUE

\* rclcpp::spin(node), line 237: the single-threaded executor takes the next
\* ready callback only when the one before has returned.
ExecutorReady == nRunning = 0

\* An exception leaves a callback: neither callback nor main catches it, so
\* it leaves rclcpp::spin and main, and the process is terminated.
Uncaught == "crashed"

\* -------------------------------------------------------- publishFromPort
\* serialPortObject->readline(data): the next raw line; nothing buffered
\* gives the empty string when the read times out.
ReadLine == IF buffer = <<>> THEN <<>> ELSE Head(buffer)

\* publishFromPort without the cleanupMessage call: the raw line is published.
PublishFromPort_raw(who) ==
    /\ buffer' = IF buffer = <<>> THEN <<>> ELSE Tail(buffer)
    /\ consumed' = IF buffer = <<>> THEN consumed ELSE Append(consumed, ReadLine)
    /\ readers' = IF buffer = <<>> THEN readers ELSE Append(readers, who)
    /\ published' = Append(published, ReadLine)

\* publishFromPort without the publish call of line 167: the line is read
\* and returned, and no message goes out.
PublishFromPort_noPublish(who) ==
    /\ buffer' = IF buffer = <<>> THEN <<>> ELSE Tail(buffer)
    /\ consumed' = IF buffer = <<>> THEN consumed ELSE Append(consumed, ReadLine)
    /\ readers' = IF buffer = <<>> THEN readers ELSE Append(readers, who)
    /\ published' = published

\* publishFromPort, lines 159-172: read a line, clean it, publish it.
\* `who` is the callback that called it.
PublishFromPort(who) ==
    /\ buffer' = IF buffer = <<>> THEN <<>> ELSE Tail(buffer)
    /\ consumed' = IF buffer = <<>> THEN consumed ELSE Append(consumed, ReadLine)
    /\ readers' = IF buffer = <<>> THEN readers ELSE Append(readers, who)
    /\ published' = Append(published, cleanupMessage(ReadLine))

\* The value publishFromPort returns (line 171).
PublishFromPortResult == cleanupMessage(ReadLine)

\* --------------------------------------------------------- timer_callback
\* The executor starts timer_callback.
DispatchTimer ==
    /\ phase = "spin"
    /\ ExecutorReady
    /\ timerDue
    /\ timerDue' = FALSE
    /\ nRunning' = nRunning + 1
    /\ pcT' = "isOpen"
    /\ tickWarned' = FALSE
    /\ tickChecks' = 0
    /\ tickReads' = 0
    /\ UNCHANGED <<startVars, devVars, pendingReq, svcVars>>
    /\ UNCHANGED <<cfgVars, probe>>

\* Lines 179-183: the closed-port branch only logs; control then reaches
\* the availability check of line 184 whether or not the port is open.
TimerAfterHealthCheck(open) == "avail"

\* Lines 179-183: if(!isOpen()) RCLCPP_WARN.
TimerIsOpen ==
    /\ phase = "spin"
    /\ pcT = "isOpen"
    /\ tickWarned' = ~isOpen
    /\ pcT' = TimerAfterHealthCheck(isOpen)
    /\ UNCHANGED <<startVars, devVars, execVars, tickChecks, tickReads, svcVars>>
    /\ UNCHANGED <<cfgVars, probe>>

\* Line 184: if(available() > 0).
TimerAvailable ==
    /\ phase = "spin"
    /\ pcT = "avail"
    /\ tickChecks' = tickChecks + 1
    /\ IF availableThrows
       THEN /\ pcT' = "threw"
            /\ phase' = Uncaught
            /\ nRunning' = nRunning
       ELSE IF available > 0
       THEN /\ pcT' = "read"
            /\ phase' = phase
            /\ nRunning' = nRunning
       ELSE /\ pcT' = "idle"
            /\ phase' = phase
            /\ nRunning' = nRunning - 1
    /\ UNCHANGED <<timerCreated, serviceCreated, devVars, timerDue, pendingReq,
                   tickWarned, tickReads, svcVars>>
    /\ UNCHANGED <<cfgVars, probe>>

\* The `if` of line 184 written as a `while`: after a read the tick checks
\* the port again.
TimerAfterRead_drain == "avail"

\* Lines 189-192: after the one publishFromPort() the callback returns.
TimerAfterRead == "idle"

\* Line 189: publishFromPort(), then the callback returns.
TimerRead ==
    /\ phase = "spin"
    /\ pcT = "read"
    /\ IF readlineThrows
       THEN /\ pcT' = "threw"
            /\ phase' = Uncaught
            /\ UNCHANGED <<buffer, consumed, readers, published, nRunning,
                           tickReads>>
       ELSE /\ PublishFromPort("timer")
            /\ tickReads' = tickReads + 1
            /\ pcT' = TimerAfterRead
            /\ phase' = phase
            /\ nRunning' = IF pcT' = "idle" THEN nRunning - 1 ELSE nRunning
    /\ UNCHANGED <<timerCreated, serviceCreated, devState, delivered, timerDue,
                   pendingReq, tickWarned, tickChecks, svcVars>>
    /\ UNCHANGED <<cfgVars, probe>>

\* ------------------------------------------------------- service_callback
\* The executor starts service_callback on the next waiting request.
DispatchService ==
    /\ phase = "spin"
    /\ ExecutorReady
    /\ pendingReq > 0
    /\ pendingReq' = pendingReq - 1
    /\ nRunning' = nRunning + 1
    /\ pcS' = "write"
    /\ answer' = <<>>
    /\ elapsed' = 0
    /\ response' = NoResponse
    /\ svcWrite' = "none"
    /\ svcChecked' = FALSE
    /\ svcSawBytes' = FALSE
    /\ svcReads' = 0
    /\ svcRead' = <<>>
    /\ svcReadAt' = 0
    /\ svcMark' = 0
    /\ svcResponses' = 0
    /\ svcOutcome' = "running"
    /\ ticked' = FALSE
    /\ UNCHANGED <<startVars, devVars, timerDue, timerVars>>
    /\ UNCHANGED <<cfgVars, probe>>

\* The write wrapped in a try/catch that swallows the error: the wait loop is
\* entered after a failed write.
ServiceAfterWrite_swallowed(threw) == "loop"

\* Line 200: a write that throws leaves service_callback by the exception;
\* a write that returns is followed by lines 201-203.
ServiceAfterWrite(threw) == IF threw THEN "threw" ELSE "loop"

\* Lines 200-202: write(request->message); answer = ""; begin = now().
ServiceWrite ==
    /\ phase = "spin"
    /\ pcS = "write"
    /\ svcWrite' = IF writeThrows THEN "failed" ELSE "ok"
    /\ pcS' = ServiceAfterWrite(writeThrows)
    /\ IF pcS' = "threw"
       THEN /\ phase' = Uncaught
            /\ svcOutcome' = "threw"
       ELSE /\ phase' = phase
            /\ svcOutcome' = svcOutcome
    /\ answer' = <<>>
    /\ elapsed' = 0
    /\ svcMark' = Len(delivered)
    /\ ticked' = FALSE
    /\ UNCHANGED <<timerCreated, serviceCreated, devVars, execVars, timerVars,
                   response, svcChecked, svcSawBytes, svcReads, svcRead,
                   svcReadAt, svcResponses>>
    /\ UNCHANGED <<cfgVars, probe>>

\* The loop condition without the timeout added to begin.
LoopCondition_noTimeout == elapsed <= 0

\* Line 203: system_clock::now() <= begin + milliseconds(answerTimeout).
LoopCondition == elapsed <= AnswerTimeout

\* Line 203: the while test; a false test leaves the loop for line 219.
ServiceLoopTest ==
    /\ phase = "spin"
    /\ pcS = "loop"
    /\ pcS' = IF LoopCondition THEN "avail" ELSE "respond"
    /\ ticked' = FALSE
    /\ UNCHANGED <<startVars, devVars, execVars, timerVars, answer, elapsed,
                   response, svcWrite, svcChecked, svcSawBytes, svcReads,
                   svcRead, svcReadAt, svcMark, svcResponses, svcOutcome>>
    /\ UNCHANGED <<cfgVars, probe>>

\* Lines 205-216: if(available() > 0) ... else { answer = ""; continue; }.
ServiceAvailable ==
    /\ phase = "spin"
    /\ pcS = "avail"
    /\ svcChecked' = TRUE
    /\ IF availableThrows
       THEN /\ pcS' = "threw"
            /\ phase' = Uncaught
            /\ svcOutcome' = "threw"
            /\ UNCHANGED <<answer, svcSawBytes>>
       ELSE IF available > 0
       THEN /\ pcS' = "read"
            /\ svcSawBytes' = TRUE
            /\ UNCHANGED <<phase, svcOutcome, answer>>
       ELSE /\ pcS' = "loop"
            /\ answer' = <<>>
            /\ UNCHANGED <<phase, svcOutcome, svcSawBytes>>
    /\ UNCHANGED <<timerCreated, serviceCreated, devVars, execVars, timerVars,
                   elapsed, response, svcWrite, svcReads, svcRead, svcReadAt,
                   svcMark, svcResponses, ticked>>
    /\ UNCHANGED <<cfgVars, probe>>

\* The loop without the break of line 211: after a read the wait goes on.
ServiceAfterRead_noBreak == "loop"

\* Line 211: break leaves the while for line 219.
ServiceAfterRead == "respond"

\* Lines 209-211: data = publishFromPort(); answer = data; break.
ServiceRead ==
    /\ phase = "spin"
    /\ pcS = "read"
    /\ IF readlineThrows
       THEN /\ pcS' = "threw"
            /\ phase' = Uncaught
            /\ svcOutcome' = "threw"
            /\ UNCHANGED <<buffer, consumed, readers, published, answer,
                           svcReads, svcRead, svcReadAt>>
       ELSE /\ PublishFromPort("service")
            /\ answer' = PublishFromPortResult
            /\ svcReads' = svcReads + 1
            /\ svcRead' = ReadLine
            /\ svcReadAt' = IF buffer = <<>> THEN 0 ELSE Len(consumed) + 1
            /\ pcS' = ServiceAfterRead
            /\ UNCHANGED <<phase, svcOutcome>>
    /\ UNCHANGED <<timerCreated, serviceCreated, devState, delivered, execVars,
                   timerVars, elapsed, response, svcWrite, svcChecked,
                   svcSawBytes, svcMark, svcResponses, ticked>>
    /\ UNCHANGED <<cfgVars, probe>>

\* The else branch of line 223 left out: an empty answer is returned as it is.
ResponseText_noSentinel(ans) == ans

\* Lines 219-225: the reply text, or "OK" when answer is empty.
ResponseText(ans) == IF ans # <<>> THEN ans ELSE OK

\* Lines 219-226: response->response is set and the callback returns.
ServiceRespond ==
    /\ phase = "spin"
    /\ pcS = "respond"
    /\ response' = ResponseText(answer)
    /\ svcResponses' = svcResponses + 1
    /\ svcOutcome' = "returned"
    /\ pcS' = "idle"
    /\ nRunning' = nRunning - 1
    /\ UNCHANGED <<startVars, devVars, timerDue, pendingReq, timerVars, answer,
                   elapsed, svcWrite, svcChecked, svcSawBytes, svcReads, svcRead,
                   svcReadAt, svcMark, ticked>>
    /\ UNCHANGED <<cfgVars, probe>>

\* ------------------------------------------------------- the specification
Next ==
    \/ ComputePollTimeout
    \/ CreateTimer
    \/ CreateService
    \/ OpenSerialPort
    \/ Spin
    \/ DeviceDelivers
    \/ PortCloses
    \/ DeviceFaults
    \/ TimerExpires
    \/ RequestArrives
    \/ ClockTick
    \/ DispatchTimer
    \/ TimerIsOpen
    \/ TimerAvailable
    \/ TimerRead
    \/ DispatchService
    \/ ServiceWrite
    \/ ServiceLoopTest
    \/ ServiceAvailable
    \/ ServiceRead
    \/ ServiceRespond

Spec == Init /\ [][Next]_vars

\* ------------------------------------------------ the node under fairness
\* A step of the node's own code: main reaching rclcpp::spin, the executor
\* starting a ready callback, a running callback executing its next
\* statement.
NodeStep ==
    \/ Spin
    \/ DispatchTimer
    \/ TimerIsOpen
    \/ TimerAvailable
    \/ TimerRead
    \/ DispatchService
    \/ ServiceWrite
    \/ ServiceLoopTest
    \/ ServiceAvailable
    \/ ServiceRead
    \/ ServiceRespond

\* The process keeps running, the wall timer keeps expiring, a timer that
\* stays ready is served, and system_clock keeps advancing.  Nothing is
\* assumed of the device or of the clients.
FairSpec ==
    /\ Spec
    /\ WF_vars(NodeStep)
    /\ WF_vars(TimerExpires)
    /\ WF_vars(DispatchTimer)
    /\ WF_vars(ClockTick)

\* ------------------------------------------- startup over configurations
\* The node started with any pollRate of PollRates.
ConfigInit ==
    /\ Start
    /\ pollRate \in PollRates
    /\ probe = ProbeOf(<<>>)

\* The constructor and main up to rclcpp::spin.
ConfigNext ==
    \/ ComputePollTimeout
    \/ CreateTimer
    \/ CreateService
    \/ OpenSerialPort
    \/ Spin

ConfigSpec == ConfigInit /\ [][ConfigNext]_vars

\* --------------------------------------------- cleanupMessage on its own
\* cleanupMessage is about to be called on any text of at most MaxTextLen
\* characters.
CleanupInit ==
    /\ Start
    /\ pollRate = DefaultPollRate
    /\ probe \in { ProbeOf(t) : t \in Texts(MaxTextLen) }

\* cleanupMessage(data) is called on the input.
ApplyCleanup ==
    /\ probe.stage = 0
    /\ probe' = [probe EXCEPT !.once = cleanupMessage(probe.in), !.stage = 1]
    /\ UNCHANGED <<startVars, devVars, execVars, timerVars, svcVars, cfgVars>>

\* cleanupMessage is called on its own result.
ApplyCleanupAgain ==
    /\ probe.stage = 1
    /\ probe' = [probe EXCEPT !.twice = cleanupMessage(probe.once), !.stage = 2]
    /\ UNCHANGED <<startVars, devVars, execVars, timerVars, svcVars, cfgVars>>

CleanupNext ==
    \/ ApplyCleanup
    \/ ApplyCleanupAgain

CleanupSpec == CleanupInit /\ [][CleanupNext]_vars

\* ================================================================== claims
TimerInProgress == pcT \in {"isOpen", "avail", "read"}
ServiceInProgress == pcS \in {"write", "loop", "avail", "read", "respond"}

\* C1: at most one operation is in progress on the serial port: a timer tick
\* and a service invocation are never both inside their bodies, and the
\* executor never runs two callbacks (two service invocations included).
C1_MutualExclusion ==
    /\ nRunning <= 1
    /\ ~(TimerInProgress /\ ServiceInProgress)
    /\ (TimerInProgress \/ ServiceInProgress) => nRunning = 1

\* C1 witness: a tick is due while a service invocation sits in its wait
\* loop, and the tick has not been started.
C1_Witness ==
    /\ pcS = "avail"
    /\ svcWrite = "ok"
    /\ timerDue
    /\ pcT = "idle"

\* C2: an invocation whose write succeeded, and which inside the timeout
\* window found a line that the device sent after the write, returns that
\* line's cleaned text and never the sentinel, whatever the line holds (a
\* line of only CR/LF included).
C2_ReplyNeverSentinel ==
    (/\ svcOutcome = "returned"
     /\ svcWrite = "ok"
     /\ svcReads = 1
     /\ svcReadAt > svcMark)
        => (response = cleanupMessage(svcRead) /\ response # OK)

\* C3: an invocation whose write succeeded and whose every availability
\* check reported no bytes returns exactly the sentinel "OK".
C3_SilenceGivesSentinel ==
    (svcOutcome = "returned" /\ svcWrite = "ok" /\ ~svcSawBytes)
        => response = OK

\* C3 witness: an invocation checked the port, saw nothing until the timeout
\* had passed, and returned.
C3_Witness ==
    /\ svcOutcome = "returned"
    /\ svcWrite = "ok"
    /\ svcChecked
    /\ ~svcSawBytes
    /\ elapsed > AnswerTimeout
    /\ response = OK

\* C4: every invocation that has ended, by return or by exception, has set
\* the response exactly once.
C4_ExactlyOneResponse ==
    svcOutcome \in {"returned", "threw"} => svcResponses = 1

\* C5: the published messages are the cleaned consumed lines, in device
\* order; the device's lines are the consumed ones followed by the buffered
\* ones (none lost, duplicated, split or merged); each consumed line has
\* one reader.
C5_EachLineOnce ==
    /\ delivered = consumed \o buffer
    /\ Len(published) = Len(consumed)
    /\ Len(readers) = Len(consumed)
    /\ \A i \in 1..Len(consumed) :
          /\ published[i] = cleanupMessage(consumed[i])
          /\ readers[i] \in {"timer", "service"}

\* C5 witness: two lines were consumed, one by each callback, the second
\* holding carriage returns inside its text.
C5_Witness ==
    /\ Len(consumed) = 2
    /\ readers[1] # readers[2]
    /\ consumed[1] # consumed[2]
    /\ Len(published) = 2
    /\ published[2] # consumed[2]

\* C6: a tick that found the port closed makes no availability check and no
\* read.
C6_ClosedTickOnlyWarns ==
    tickWarned => (tickChecks = 0 /\ tickReads = 0)

\* C7: no failure inside a tick or an invocation terminates the process.
C7_FailuresConfined == phase # "crashed"

\* C8: after a failed write the invocation is left by the exception: it
\* makes no availability check and no read (so no publish), and sets no
\* response, neither reply text nor "OK".
C8_FailedWriteSkipsLoop ==
    svcWrite = "failed" =>
        /\ svcOutcome = "threw"
        /\ pcS = "threw"
        /\ ~svcChecked
        /\ ~svcSawBytes
        /\ svcReads = 0
        /\ svcResponses = 0
        /\ response = NoResponse

\* C8 witness: a write has failed on a port that closed with a line still
\* buffered.
C8_Witness ==
    /\ svcWrite = "failed"
    /\ buffer # <<>>

\* C9: whenever no operation is in progress, whatever way the last one was
\* left, the executor holds no callback and can start the next one.
C9_ReleasedOnEveryExit ==
    (~TimerInProgress /\ ~ServiceInProgress) =>
        (nRunning = 0 /\ phase # "crashed")

\* Nothing has been served: no callback has started and nothing was published.
NothingServed ==
    /\ pcT = "idle"
    /\ pcS = "idle"
    /\ svcOutcome = "none"
    /\ nRunning = 0
    /\ tickChecks = 0
    /\ ~timerDue
    /\ pendingReq = 0
    /\ published = <<>>

\* C10 as stated: the timer and the service exist only after a successful
\* open of the port.
C10_OpenPrecedesCreation ==
    (timerCreated \/ serviceCreated) => devState # "unopened"

\* C10 amended: the timer and the service are created before the open is
\* attempted, but while the port has not been opened nothing is served, and
\* a failed open ends startup before spin.
C10_NoCallbackWithoutOpen ==
    /\ devState = "unopened" => NothingServed
    /\ phase = "aborted" => (devState = "unopened" /\ timerCreated /\ serviceCreated)
    /\ phase \in {"constructed", "spin", "crashed"} => devState # "unopened"

\* C10 witness: the open has failed after the timer and service were created.
C10_Witness ==
    /\ phase = "aborted"
    /\ timerCreated
    /\ serviceCreated

\* C11: a pollRate of 0 is rejected before the division and before the timer
\* is created: startup stands before the division or has ended in a
\* configuration error, with no timer, no service and no open port.
C11_ZeroPollRateRejected ==
    pollRate = 0 =>
        /\ phase \in {"ctor", "rejected"}
        /\ ~timerCreated
        /\ ~serviceCreated
        /\ devState = "unopened"

\* C20: for every pollRate >= 1 the period the timer is created with,
\* 1000 / pollRate milliseconds, is strictly positive.
C20_PeriodPositive ==
    (pollRate >= 1 /\ timerCreated) => pollTimeout > 0

\* C12: cleanupMessage returns its input with exactly the CR and LF
\* characters removed, wherever and however many they are, and the other
\* characters in their order; applied to its own result it changes nothing.
C12_CleanupExact ==
    /\ probe.stage >= 1 =>
          /\ probe.once = WithoutBreaks(probe.in)
          /\ \A i \in 1..Len(probe.once) : probe.once[i] \notin {CR, LF}
    /\ probe.stage = 2 => probe.twice = probe.once

\* C12 witness: a text with a CR and an LF between other characters has been
\* cleaned twice.
C12_Witness ==
    /\ probe.stage = 2
    /\ probe.in = <<"a", CR, LF, "b">>
    /\ probe.once = <<"a", "b">>
    /\ probe.twice = <<"a", "b">>

\* C13 as stated: the text published for a raw line is that line with only
\* its trailing CR and LF stripped, every other byte unchanged.
C13_OnlyTrailingStripped ==
    \A i \in 1..Len(consumed) :
        i <= Len(published) => published[i] = StripTrailing(consumed[i])

\* C13 amended: the text published for a raw line is that line with every CR
\* and LF removed, trailing or not, and every other byte unchanged and in
\* order; so it differs from the trailing strip exactly when a CR or LF
\* stands before the line ending.
C13_EveryBreakRemoved ==
    \A i \in 1..Len(consumed) :
        /\ i <= Len(published)
        /\ published[i] = WithoutBreaks(consumed[i])
        /\ (published[i] = StripTrailing(consumed[i]))
              <=> (\A k \in 1..Len(StripTrailing(consumed[i])) :
                      consumed[i][k] \notin {CR, LF})

\* C13 witness: a raw line with a CR inside its text has been published
\* without that CR.
C13_Witness ==
    \E i \in 1..Len(consumed) :
        /\ i <= Len(published)
        /\ consumed[i] = <<"b", CR, "a", LF>>
        /\ published[i] = <<"b", "a">>

\* C14: an invocation that saw no data returns the sentinel no earlier than
\* the answer timeout after `begin` and no later than the timeout plus one
\* turn of the loop (one clock step).
C14_SentinelTiming ==
    (svcOutcome = "returned" /\ svcWrite = "ok" /\ ~svcSawBytes) =>
        /\ response = OK
        /\ AnswerTimeout <= elapsed
        /\ elapsed <= AnswerTimeout + 1

\* C14 witness: a silent invocation has returned one clock step after the
\* timeout, having checked the port.
C14_Witness ==
    /\ svcOutcome = "returned"
    /\ ~svcSawBytes
    /\ svcChecked
    /\ elapsed = AnswerTimeout + 1
    /\ pcS = "idle"

\* C15: an invocation that returns reply text has published exactly one
\* message, equal to the response; one that returns the sentinel has
\* published none.
C15_ReplyPublishedOnce ==
    svcOutcome = "returned" =>
        IF response = OK
        THEN svcReads = 0
        ELSE /\ svcReads = 1
             /\ svcReadAt \in 1..Len(published)
             /\ published[svcReadAt] = response

\* C16: the line an invocation returns as its reply was sent by the device
\* after the invocation wrote its request; a line buffered before the write
\* is never the reply.
C16_ReplyAfterWrite ==
    (svcOutcome = "returned" /\ svcReads = 1 /\ response # OK)
        => svcReadAt > svcMark

\* C17: the wait loop is first-data-wins: an invocation reads at most one
\* line, after the first availability check that reports bytes it is never
\* back in the loop, and what it read is its answer whatever the clock shows.
C17_FirstDataWins ==
    /\ svcReads <= 1
    /\ svcSawBytes => pcS \in {"read", "respond", "idle", "threw"}
    /\ svcReads = 1 =>
          /\ pcS \in {"respond", "idle"}
          /\ svcSawBytes
          /\ answer = WithoutBreaks(svcRead)

\* C17 witness: an invocation read its line after the timeout had passed
\* and returned the line's text.
C17_Witness ==
    /\ svcOutcome = "returned"
    /\ svcReads = 1
    /\ elapsed > AnswerTimeout
    /\ response = WithoutBreaks(svcRead)
    /\ response # OK

\* C18: a tick makes at most one read and publish.  A tick that finds no
\* bytes returns with the buffer and the published messages unchanged; a
\* tick that finds bytes goes on to one publishFromPort, which takes one
\* line from the buffer, publishes one message, and returns.
C18_TickReadsAtMostOnce ==
    /\ [](tickReads <= 1 /\ tickChecks <= 1)
    /\ [][ /\ (pcT = "avail" /\ pcT' = "idle") =>
                /\ available = 0
                /\ tickReads' = 0
                /\ UNCHANGED <<buffer, consumed, published>>
           /\ (pcT = "avail" /\ pcT' # "avail" /\ ~availableThrows /\ available > 0)
                => pcT' = "read"
           /\ (pcT = "read" /\ pcT' # "read" /\ ~readlineThrows) =>
                /\ pcT' = "idle"
                /\ tickReads' = 1
                /\ buffer' = Tail(buffer)
                /\ Len(consumed') = Len(consumed) + 1
                /\ Len(published') = Len(published) + 1
         ]_vars

\* C18 witness: a tick on an open port has read and published one line and
\* returned, with another line still buffered.
C18_Witness ==
    /\ pcT = "idle"
    /\ ~tickWarned
    /\ tickChecks = 1
    /\ tickReads = 1
    /\ buffer # <<>>
    /\ Len(published) = 1

\* C19: while the port stays open, every line the device has sent is
\* eventually published with its cleaned text, whatever requests arrive in
\* the meantime.
C19_EveryLinePublished ==
    \A n \in 1..MaxLines :
        (Len(delivered) >= n) ~>
            \/ devState # "ok"
            \/ /\ Len(published) >= n
               /\ published[n] = cleanupMessage(delivered[n])

\* C19 witness: every line sent was published on an open port, one of them
\* by a tick, after a request had been served in between.
C19_Witness ==
    /\ devState = "ok"
    /\ Len(delivered) = MaxLines
    /\ Len(published) = MaxLines
    /\ readers[MaxLines] = "timer"
    /\ svcOutcome = "returned"

====
